---------------------------- MODULE Spec2Model ----------------------------
(***************************************************************************)
(* A model of the ASCII clock (src/clock.py): the background grid builder, *)
(* the glyph compositor, the frame renderer and the main loop with its     *)
(* asynchronous resize notification.                                       *)
(*                                                                         *)
(* Six specifications share the variables below; each one leaves the       *)
(* variables of the other parts at their idle values.                      *)
(*   SpecGrid     the fill loop of ASCIIClock.create_display_grid, one     *)
(*                step per cell                                            *)
(*   SpecCompose  get_highlight_positions / get_border_positions           *)
(*   SpecRender   display_code_with_time                                   *)
(*   Spec         main() with SIGWINCH, Ctrl-C and faults interleaved      *)
(*   SpecBetween  main() where the terminal is resized only while the      *)
(*                loop sleeps between two ticks                            *)
(*   SpecAnchor   the placing of the glyph block on an adequate terminal   *)
(***************************************************************************)
EXTENDS Integers, Sequences, FiniteSets, TLC

VARIABLES
    pc,                     \* position of the running code
    term,                   \* the terminal's size <<columns, lines>>
    sig_pending,            \* a SIGWINCH raised and not yet handled
    terminal_resized,       \* self.terminal_resized
    supports_resize_signal, \* self.supports_resize_signal
    width,                  \* self.width
    height,                 \* self.height
    source_code,            \* self.source_code, a sequence of characters
    self_grid,              \* self.grid, kept as its shape (see GridShape)
    cursor_visible,         \* the terminal cursor is shown
    exit_code,              \* the process's exit code, -1 while it runs
    frame,                  \* what the last tick drew
    rebuilds,               \* grid builds since the last terminal size change
    grid,                   \* the list of rows under construction / rendered
    grid_row,               \* the row under construction
    row,                    \* loop variable of create_display_grid
    col,                    \* loop variable of create_display_grid
    char_index,             \* the cursor into source_code
    time_str,               \* the compositor's inputs
    start_row,
    start_col,
    grid_width,
    grid_height,
    highlight_positions,    \* list of <<row, col, color>>
    border_positions,       \* set of <<row, col>>
    printed                 \* the lines display_code_with_time printed

ctlVars == <<term, sig_pending, terminal_resized, supports_resize_signal,
             self_grid, cursor_visible, exit_code, frame, rebuilds>>
fillVars == <<grid_row, row, col, char_index>>
compVars == <<time_str, start_row, start_col, grid_width, grid_height>>
vars == <<pc, term, sig_pending, terminal_resized, supports_resize_signal,
          width, height, source_code, self_grid, cursor_visible, exit_code,
          frame, rebuilds, grid, grid_row, row, col, char_index, time_str,
          start_row, start_col, grid_width, grid_height, highlight_positions,
          border_positions, printed>>

Max(a, b) == IF a >= b THEN a ELSE b

(***************************************************************************)
(* Idle values of the parts a specification does not run.                  *)
(***************************************************************************)
EmptyGrid == [rows |-> 0, cols |-> 0]
NoFrame == [kind |-> "none"]

CtlIdle ==
    /\ term = <<0, 0>>
    /\ sig_pending = FALSE
    /\ terminal_resized = FALSE
    /\ supports_resize_signal = FALSE
    /\ self_grid = EmptyGrid
    /\ cursor_visible = TRUE
    /\ exit_code = -1
    /\ frame = NoFrame
    /\ rebuilds = 0

FillIdle ==
    /\ grid_row = <<>>
    /\ row = 0
    /\ col = 0
    /\ char_index = 0

CompIdle ==
    /\ time_str = <<>>
    /\ start_row = 0
    /\ start_col = 0
    /\ grid_width = 0
    /\ grid_height = 0

(***************************************************************************)
(* ASCIIClock.create_display_grid, src/clock.py 193-209.                   *)
(* Characters are one-character strings; source_code[i] of the code is     *)
(* source_code[i + 1] here (sequences are 1-based).                        *)
(***************************************************************************)
MaxTextLen == 3
MaxWidth == 4
MaxHeight == 3

Alphabet == {"A", "B", "C"}

FillerTexts == UNION {[1..n -> Alphabet] : n \in 1..MaxTextLen}

\* lines 195-196 (and the first grid_row = [] of line 199)
FillStart ==
    /\ grid = <<>>
    /\ grid_row = <<>>
    /\ row = 0
    /\ col = 0
    /\ char_index = 0

\* lines 201-206: the body of the inner loop for one cell
FillCell ==
    /\ pc = "fill"
    /\ row < height
    /\ col < width
    /\ IF char_index < Len(source_code)
         THEN /\ grid_row' = Append(grid_row, source_code[char_index + 1])
              /\ char_index' = char_index + 1
         ELSE /\ char_index' = 0
              /\ grid_row' = Append(grid_row, source_code[0 + 1])
    /\ col' = col + 1
    /\ UNCHANGED <<pc, row, grid, width, height, source_code>>
    /\ UNCHANGED ctlVars
    /\ UNCHANGED compVars
    /\ UNCHANGED <<highlight_positions, border_positions, printed>>

\* line 207 and the next iteration of line 198-199
FillEndRow ==
    /\ pc = "fill"
    /\ row < height
    /\ col >= width
    /\ grid' = Append(grid, grid_row)
    /\ grid_row' = <<>>
    /\ row' = row + 1
    /\ col' = 0
    /\ UNCHANGED <<pc, char_index, width, height, source_code>>
    /\ UNCHANGED ctlVars
    /\ UNCHANGED compVars
    /\ UNCHANGED <<highlight_positions, border_positions, printed>>

\* line 209
FillReturn ==
    /\ pc = "fill"
    /\ row >= height
    /\ pc' = "filled"
    /\ UNCHANGED <<grid, width, height, source_code>>
    /\ UNCHANGED fillVars
    /\ UNCHANGED ctlVars
    /\ UNCHANGED compVars
    /\ UNCHANGED <<highlight_positions, border_positions, printed>>

InitGrid ==
    /\ pc = "fill"
    /\ source_code \in FillerTexts
    /\ width \in 1..MaxWidth
    /\ height \in 1..MaxHeight
    /\ FillStart
    /\ CtlIdle
    /\ CompIdle
    /\ highlight_positions = <<>>
    /\ border_positions = {}
    /\ printed = <<>>

NextGrid ==
    \/ FillCell
    \/ FillEndRow
    \/ FillReturn

SpecGrid == InitGrid /\ [][NextGrid]_vars

\* The character the claimed tiling puts at row r, column c (both 0-based).
TiledChar(r, c) == source_code[((r * width + c) % Len(source_code)) + 1]

\* C1: the grid returned for width, height > 0 and a non-empty filler text has
\* exactly height rows of width cells, and the cell with row-major index k
\* holds filler_text[k mod len(filler_text)].
C1_TilingExact ==
    pc = "filled" =>
        /\ Len(grid) = height
        /\ \A r \in 1..Len(grid) :
              /\ Len(grid[r]) = width
              /\ \A c \in 1..Len(grid[r]) : grid[r][c] = TiledChar(r - 1, c - 1)

\* C9: in every state of the fill loop the cursor char_index is within
\* [0, len(filler_text)).
C9_CursorInRange ==
    pc \in {"fill", "filled"} =>
        (char_index >= 0 /\ char_index < Len(source_code))

(***************************************************************************)
(* class Colors, src/clock.py 16-31.  A string of escape codes is the      *)
(* sequence of its codes, so that a + b of the code is a \o b here.        *)
(***************************************************************************)
Colors ==
    [CYAN |-> <<"ESC[96m">>, GREEN |-> <<"ESC[92m">>, YELLOW |-> <<"ESC[93m">>,
     RED |-> <<"ESC[91m">>, PURPLE |-> <<"ESC[95m">>, BLUE |-> <<"ESC[94m">>,
     WHITE |-> <<"ESC[97m">>, GRAY |-> <<"ESC[90m">>,
     DARK_GRAY |-> <<"ESC[2m", "ESC[90m">>, RESET |-> <<"ESC[0m">>,
     BOLD |-> <<"ESC[1m">>, BG_WHITE |-> <<"ESC[47m">>,
     BG_BLACK |-> <<"ESC[40m">>]

(***************************************************************************)
(* ASCII_PATTERNS, src/clock.py 213-357: 11 rows of 9 cells per character. *)
(***************************************************************************)
ASCII_PATTERNS ==
    "0" :>
        <<<<1, 1, 1, 1, 1, 1, 1, 1, 1>>,
           <<1, 1, 1, 0, 0, 0, 1, 1, 1>>,
           <<1, 1, 0, 0, 0, 0, 0, 1, 1>>,
           <<1, 1, 0, 0, 0, 0, 0, 1, 1>>,
           <<1, 1, 0, 0, 0, 0, 0, 1, 1>>,
           <<1, 1, 0, 0, 0, 0, 0, 1, 1>>,
           <<1, 1, 0, 0, 0, 0, 0, 1, 1>>,
           <<1, 1, 0, 0, 0, 0, 0, 1, 1>>,
           <<1, 1, 0, 0, 0, 0, 0, 1, 1>>,
           <<1, 1, 1, 0, 0, 0, 1, 1, 1>>,
           <<1, 1, 1, 1, 1, 1, 1, 1, 1>>>> @@
    "1" :>
        <<<<0, 0, 0, 1, 1, 1, 0, 0, 0>>,
           <<0, 0, 1, 1, 1, 1, 0, 0, 0>>,
           <<0, 1, 1, 0, 1, 1, 0, 0, 0>>,
           <<0, 0, 0, 0, 1, 1, 0, 0, 0>>,
           <<0, 0, 0, 0, 1, 1, 0, 0, 0>>,
           <<0, 0, 0, 0, 1, 1, 0, 0, 0>>,
           <<0, 0, 0, 0, 1, 1, 0, 0, 0>>,
           <<0, 0, 0, 0, 1, 1, 0, 0, 0>>,
           <<0, 0, 0, 0, 1, 1, 0, 0, 0>>,
           <<0, 0, 0, 0, 1, 1, 0, 0, 0>>,
           <<1, 1, 1, 1, 1, 1, 1, 1, 1>>>> @@
    "2" :>
        <<<<1, 1, 1, 1, 1, 1, 1, 1, 1>>,
           <<1, 1, 0, 0, 0, 0, 0, 1, 1>>,
           <<0, 0, 0, 0, 0, 0, 0, 1, 1>>,
           <<0, 0, 0, 0, 0, 0, 0, 1, 1>>,
           <<0, 0, 0, 0, 0, 0, 1, 1, 1>>,
           <<1, 1, 1, 1, 1, 1, 1, 1, 0>>,
           <<1, 1, 1, 0, 0, 0, 0, 0, 0>>,
           <<1, 1, 0, 0, 0, 0, 0, 0, 0>>,
           <<1, 1, 0, 0, 0, 0, 0, 0, 0>>,
           <<1, 1, 0, 0, 0, 0, 0, 1, 1>>,
           <<1, 1, 1, 1, 1, 1, 1, 1, 1>>>> @@
    "3" :>
        <<<<1, 1, 1, 1, 1, 1, 1, 1, 1>>,
           <<1, 1, 0, 0, 0, 0, 0, 1, 1>>,
           <<0, 0, 0, 0, 0, 0, 0, 1, 1>>,
           <<0, 0, 0, 0, 0, 0, 0, 1, 1>>,
           <<0, 0, 0, 0, 0, 0, 1, 1, 1>>,
           <<1, 1, 1, 1, 1, 1, 1, 1, 0>>,
           <<0, 0, 0, 0, 0, 0, 1, 1, 1>>,
           <<0, 0, 0, 0, 0, 0, 0, 1, 1>>,
           <<0, 0, 0, 0, 0, 0, 0, 1, 1>>,
           <<1, 1, 0, 0, 0, 0, 0, 1, 1>>,
           <<1, 1, 1, 1, 1, 1, 1, 1, 1>>>> @@
    "4" :>
        <<<<1, 1, 0, 0, 0, 0, 1, 1, 1>>,
           <<1, 1, 0, 0, 0, 0, 1, 1, 1>>,
           <<1, 1, 0, 0, 0, 0, 1, 1, 1>>,
           <<1, 1, 0, 0, 0, 0, 1, 1, 1>>,
           <<1, 1, 0, 0, 0, 0, 1, 1, 1>>,
           <<1, 1, 1, 1, 1, 1, 1, 1, 1>>,
           <<0, 0, 0, 0, 0, 0, 1, 1, 1>>,
           <<0, 0, 0, 0, 0, 0, 1, 1, 1>>,
           <<0, 0, 0, 0, 0, 0, 1, 1, 1>>,
           <<0, 0, 0, 0, 0, 0, 1, 1, 1>>,
           <<0, 0, 0, 0, 0, 0, 1, 1, 1>>>> @@
    "5" :>
        <<<<1, 1, 1, 1, 1, 1, 1, 1, 1>>,
           <<1, 1, 0, 0, 0, 0, 0, 0, 0>>,
           <<1, 1, 0, 0, 0, 0, 0, 0, 0>>,
           <<1, 1, 0, 0, 0, 0, 0, 0, 0>>,
           <<1, 1, 0, 0, 0, 0, 0, 0, 0>>,
           <<1, 1, 1, 1, 1, 1, 1, 1, 1>>,
           <<0, 0, 0, 0, 0, 0, 0, 1, 1>>,
           <<0, 0, 0, 0, 0, 0, 0, 1, 1>>,
           <<0, 0, 0, 0, 0, 0, 0, 1, 1>>,
           <<1, 1, 0, 0, 0, 0, 0, 1, 1>>,
           <<1, 1, 1, 1, 1, 1, 1, 1, 1>>>> @@
    "6" :>
        <<<<1, 1, 1, 1, 1, 1, 1, 1, 1>>,
           <<1, 1, 0, 0, 0, 0, 0, 1, 1>>,
           <<1, 1, 0, 0, 0, 0, 0, 0, 0>>,
           <<1, 1, 0, 0, 0, 0, 0, 0, 0>>,
           <<1, 1, 0, 0, 0, 0, 0, 0, 0>>,
           <<1, 1, 1, 1, 1, 1, 1, 1, 1>>,
           <<1, 1, 0, 0, 0, 0, 0, 1, 1>>,
           <<1, 1, 0, 0, 0, 0, 0, 1, 1>>,
           <<1, 1, 0, 0, 0, 0, 0, 1, 1>>,
           <<1, 1, 0, 0, 0, 0, 0, 1, 1>>,
           <<1, 1, 1, 1, 1, 1, 1, 1, 1>>>> @@
    "7" :>
        <<<<1, 1, 1, 1, 1, 1, 1, 1, 1>>,
           <<1, 1, 0, 0, 0, 0, 0, 1, 1>>,
           <<0, 0, 0, 0, 0, 0, 0, 1, 1>>,
           <<0, 0, 0, 0, 0, 0, 1, 1, 0>>,
           <<0, 0, 0, 0, 0, 1, 1, 0, 0>>,
           <<0, 0, 0, 0, 1, 1, 0, 0, 0>>,
           <<0, 0, 0, 1, 1, 0, 0, 0, 0>>,
           <<0, 0, 1, 1, 0, 0, 0, 0, 0>>,
           <<0, 1, 1, 0, 0, 0, 0, 0, 0>>,
           <<0, 1, 1, 0, 0, 0, 0, 0, 0>>,
           <<0, 1, 1, 0, 0, 0, 0, 0, 0>>>> @@
    "8" :>
        <<<<1, 1, 1, 1, 1, 1, 1, 1, 1>>,
           <<1, 1, 0, 0, 0, 0, 0, 1, 1>>,
           <<1, 1, 0, 0, 0, 0, 0, 1, 1>>,
           <<1, 1, 0, 0, 0, 0, 0, 1, 1>>,
           <<1, 1, 0, 0, 0, 0, 0, 1, 1>>,
           <<1, 1, 1, 1, 1, 1, 1, 1, 1>>,
           <<1, 1, 0, 0, 0, 0, 0, 1, 1>>,
           <<1, 1, 0, 0, 0, 0, 0, 1, 1>>,
           <<1, 1, 0, 0, 0, 0, 0, 1, 1>>,
           <<1, 1, 0, 0, 0, 0, 0, 1, 1>>,
           <<1, 1, 1, 1, 1, 1, 1, 1, 1>>>> @@
    "9" :>
        <<<<1, 1, 1, 1, 1, 1, 1, 1, 1>>,
           <<1, 1, 0, 0, 0, 0, 0, 1, 1>>,
           <<1, 1, 0, 0, 0, 0, 0, 1, 1>>,
           <<1, 1, 0, 0, 0, 0, 0, 1, 1>>,
           <<1, 1, 0, 0, 0, 0, 0, 1, 1>>,
           <<1, 1, 1, 1, 1, 1, 1, 1, 1>>,
           <<0, 0, 0, 0, 0, 0, 0, 1, 1>>,
           <<0, 0, 0, 0, 0, 0, 0, 1, 1>>,
           <<0, 0, 0, 0, 0, 0, 0, 1, 1>>,
           <<1, 1, 0, 0, 0, 0, 0, 1, 1>>,
           <<1, 1, 1, 1, 1, 1, 1, 1, 1>>>> @@
    ":" :>
        <<<<0, 0, 0, 0, 0, 0, 0, 0, 0>>,
           <<0, 0, 0, 0, 0, 0, 0, 0, 0>>,
           <<0, 0, 1, 1, 1, 1, 1, 0, 0>>,
           <<0, 0, 1, 1, 1, 1, 1, 0, 0>>,
           <<0, 0, 1, 1, 1, 1, 1, 0, 0>>,
           <<0, 0, 0, 0, 0, 0, 0, 0, 0>>,
           <<0, 0, 0, 0, 0, 0, 0, 0, 0>>,
           <<0, 0, 1, 1, 1, 1, 1, 0, 0>>,
           <<0, 0, 1, 1, 1, 1, 1, 0, 0>>,
           <<0, 0, 1, 1, 1, 1, 1, 0, 0>>,
           <<0, 0, 0, 0, 0, 0, 0, 0, 0>>>>

\* range(11) and range(9) of the glyph loops
PatternRows == 11
PatternCols == 9
\* current_col += 12
CharSpacing == 12

\* lines 366-375
SlotColors ==
    <<Colors.RED \o Colors.BOLD, Colors.RED \o Colors.BOLD,
      Colors.YELLOW \o Colors.BOLD,
      Colors.GREEN \o Colors.BOLD, Colors.GREEN \o Colors.BOLD,
      Colors.YELLOW \o Colors.BOLD,
      Colors.CYAN \o Colors.BOLD, Colors.CYAN \o Colors.BOLD>>

\* The glyph pixels in the order the three nested loops visit them:
\* <<char_idx, row_idx, col_idx>>, all 0-based.
PixelOrder(ts) ==
    [k \in 1..(Len(ts) * PatternRows * PatternCols) |->
        <<(k - 1) \div (PatternRows * PatternCols),
          ((k - 1) % (PatternRows * PatternCols)) \div PatternCols,
          (k - 1) % PatternCols>>]

\* pattern[row_idx][col_idx] == 1 for the character at char_idx
Lit(ts, px) == ASCII_PATTERNS[ts[px[1] + 1]][px[2] + 1][px[3] + 1] = 1

\* current_col when the character at char_idx is processed
CurrentCol(sc, char_idx) == sc + CharSpacing * char_idx

\* the bounds test of lines 389-392, 415 and 441-443
InGrid_lowerDropped(r, c, gw, gh) == r < gh /\ c < gw

InGrid(r, c, gw, gh) == 0 <= r /\ r < gh /\ 0 <= c /\ c < gw

\* get_highlight_positions, lines 360-398: the list of <<row, col, color>>
get_highlight_positions(ts, sr, sc, gw, gh) ==
    LET Kept(px) ==
            /\ Lit(ts, px)
            /\ InGrid(sr + px[2], CurrentCol(sc, px[1]) + px[3], gw, gh)
        kept == SelectSeq(PixelOrder(ts), Kept)
    IN  [i \in 1..Len(kept) |->
            <<sr + kept[i][2], CurrentCol(sc, kept[i][1]) + kept[i][3],
              SlotColors[kept[i][1] + 1]>>]

\* get_border_positions, lines 401-450.  list(set(...)) holds every position
\* once, in no specified order: the result is kept as the set.
get_border_positions(ts, sr, sc, gw, gh) ==
    LET px == PixelOrder(ts)
        lit == {k \in DOMAIN px : Lit(ts, px[k])}
        center(k) == <<sr + px[k][2], CurrentCol(sc, px[k][1]) + px[k][3]>>
        digit_positions ==
            {center(k) : k \in {j \in lit :
                InGrid(center(j)[1], center(j)[2], gw, gh)}}
        around(k) ==
            {<<center(k)[1] + dr, center(k)[2] + dc>> :
                dr \in {-1, 0, 1}, dc \in {-1, 0, 1}} \ {center(k)}
    IN  {b \in UNION {around(k) : k \in lit} :
            /\ InGrid(b[1], b[2], gw, gh)
            /\ b \notin digit_positions}

(***************************************************************************)
(* The compositor called as main() calls it (lines 567-573), on bounded    *)
(* inputs: time strings over 0-9 and ':', anchors on and off the grid and  *)
(* grids that hold the whole glyph block or clip it.                       *)
(***************************************************************************)
ClipOff == 1

Str(a, b, c, d, e, f, g, h) == <<a, b, c, d, e, f, g, h>>

TimeStrings ==
    {Str("1", "2", ":", "3", "0", ":", "4", "5"),
     Str("1", "1", ":", "1", "1", ":", "1", "1"),
     Str("0", "8", ":", "5", "9", ":", "0", "7"),
     Str("2", "3", ":", "4", "6", ":", "1", "9"),
     Str(":", "7", "7", ":", ":", "7", "7", ":")}

AnchorRows == (-ClipOff)..ClipOff \cup {6}
AnchorCols == {-4 * ClipOff, 0, 5, 10}
\* <<grid_width, grid_height>>
GridSizes == {<<4, 5>>, <<20, 11>>, <<77, 22>>, <<98, 23>>, <<120, 30>>}

\* line 567
Highlight ==
    /\ pc = "compose"
    /\ highlight_positions' =
          get_highlight_positions(time_str, start_row, start_col,
                                  grid_width, grid_height)
    /\ pc' = "highlighted"
    /\ UNCHANGED <<border_positions, printed, grid, width, height, source_code>>
    /\ UNCHANGED fillVars
    /\ UNCHANGED ctlVars
    /\ UNCHANGED compVars

\* line 571
Border ==
    /\ pc = "highlighted"
    /\ border_positions' =
          get_border_positions(time_str, start_row, start_col,
                               grid_width, grid_height)
    /\ pc' = "composed"
    /\ UNCHANGED <<highlight_positions, printed, grid, width, height, source_code>>
    /\ UNCHANGED fillVars
    /\ UNCHANGED ctlVars
    /\ UNCHANGED compVars

InitCompose ==
    /\ pc = "compose"
    /\ time_str \in TimeStrings
    /\ start_row \in AnchorRows
    /\ start_col \in AnchorCols
    /\ \E gs \in GridSizes : grid_width = gs[1] /\ grid_height = gs[2]
    /\ highlight_positions = <<>>
    /\ border_positions = {}
    /\ printed = <<>>
    /\ grid = <<>>
    /\ width = 0
    /\ height = 0
    /\ source_code = <<>>
    /\ FillIdle
    /\ CtlIdle

NextCompose ==
    \/ Highlight
    \/ Border

SpecCompose == InitCompose /\ [][NextCompose]_vars

\* the cells of the HighlightSet
HighlightCells ==
    {<<highlight_positions[i][1], highlight_positions[i][2]>> :
        i \in DOMAIN highlight_positions}

\* the number of lit glyph pixels of the time string, clipped or not
LitCount ==
    Cardinality({k \in DOMAIN PixelOrder(time_str) :
                    Lit(time_str, PixelOrder(time_str)[k])})

\* C6: every position returned by get_highlight_positions and by
\* get_border_positions lies within the grid, 0 <= row < grid_height and
\* 0 <= col < grid_width, whatever part of the glyph block is clipped.
C6_PositionsInGrid ==
    /\ pc \in {"highlighted", "composed"} =>
          \A i \in DOMAIN highlight_positions :
              /\ 0 <= highlight_positions[i][1]
              /\ highlight_positions[i][1] < grid_height
              /\ 0 <= highlight_positions[i][2]
              /\ highlight_positions[i][2] < grid_width
    /\ pc = "composed" =>
          \A b \in border_positions :
              /\ 0 <= b[1] /\ b[1] < grid_height
              /\ 0 <= b[2] /\ b[2] < grid_width

\* C6 witness: both sets were computed for a block that is clipped on the
\* top/left (negative anchor) and on the right, and both are non-empty.
C6_Witness ==
    /\ pc = "composed"
    /\ start_row < 0
    /\ start_col < 0
    /\ Len(highlight_positions) > 0
    /\ Len(highlight_positions) < LitCount
    /\ border_positions # {}

\* the in-grid cells 8-adjacent to a highlighted cell and not highlighted
HaloOf(H) ==
    {n \in UNION {{<<p[1] + dr, p[2] + dc>> :
                      dr \in {-1, 0, 1}, dc \in {-1, 0, 1}} : p \in H} :
        /\ 0 <= n[1] /\ n[1] < grid_height
        /\ 0 <= n[2] /\ n[2] < grid_width
        /\ n \notin H}

\* C7: the BorderSet is exactly the set of in-grid cells 8-adjacent to at
\* least one cell of the HighlightSet and not in the HighlightSet, also when
\* part of the glyph block is clipped.
C7_BorderIsHalo ==
    pc = "composed" => border_positions = HaloOf(HighlightCells)

(***************************************************************************)
(* display_code_with_time, src/clock.py 453-477.  A printed line is the    *)
(* sequence of its tokens: escape codes and single characters.             *)
(***************************************************************************)
\* the cell <<row, col>> of entry i of a highlight list
CellOf(hp, i) == <<hp[i][1], hp[i][2]>>

\* lines 455-461: a later entry for a cell replaces an earlier one
highlight_dict(g, hp) ==
    LET ok(i) ==
            /\ 0 <= hp[i][1] /\ hp[i][1] < Len(g)
            /\ 0 <= hp[i][2] /\ hp[i][2] < Len(g[1])
        kept == {i \in DOMAIN hp : ok(i)}
        last(p) == CHOOSE i \in kept :
                      /\ CellOf(hp, i) = p
                      /\ \A j \in kept : CellOf(hp, j) = p => j <= i
    IN  [p \in {CellOf(hp, i) : i \in kept} |-> hp[last(p)][3]]

\* lines 467-476: the color directive of the cell p
CellColor_borderFirst(p, hd, bs) ==
    IF p \in bs THEN Colors.GRAY
    ELSE IF p \in DOMAIN hd THEN hd[p]
    ELSE Colors.DARK_GRAY

CellColor(p, hd, bs) ==
    IF p \in DOMAIN hd THEN hd[p]
    ELSE IF p \in bs THEN Colors.GRAY
    ELSE Colors.DARK_GRAY

\* lines 465-476: the line after the first n cells of grid row row_idx
RECURSIVE LineUpTo(_, _, _, _, _)
LineUpTo(g, row_idx, n, hd, bs) ==
    IF n = 0 THEN <<>>
    ELSE LineUpTo(g, row_idx, n - 1, hd, bs)
            \o CellColor(<<row_idx, n - 1>>, hd, bs)
            \o <<g[row_idx + 1][n]>>
            \o Colors.RESET

\* lines 453-477: the lines printed, one print(line) per grid row
display_code_with_time(g, hp, bp) ==
    LET hd == highlight_dict(g, hp)
        border_set == bp
    IN  [r \in 1..Len(g) |-> LineUpTo(g, r - 1, Len(g[r]), hd, border_set)]

RenderMaxH == 2
RenderMaxW == 2
MaxHighlights == 2

\* distinct background characters, so that a misplaced character shows
Letters == <<"a", "b", "c", "d", "e", "f", "g", "h", "i", "j", "k", "l">>

\* grids as create_display_grid builds them from a text longer than the grid
RenderGrids ==
    {[r \in 1..h |->
        [c \in 1..w |-> Letters[(((r - 1) * w + c - 1) % Len(Letters)) + 1]]] :
        h \in 0..RenderMaxH, w \in 1..RenderMaxW}

HighlightEntries ==
    {<<p[1], p[2], color>> :
        p \in {<<0, 0>>, <<1, 1>>, <<0, 2>>, <<-1, 0>>},
        color \in {SlotColors[1], SlotColors[7]}}

HighlightLists == UNION {[1..n -> HighlightEntries] : n \in 0..MaxHighlights}

BorderLists == SUBSET {<<0, 0>>, <<0, 1>>, <<1, 1>>}

\* line 577
Display ==
    /\ pc = "display"
    /\ printed' = display_code_with_time(grid, highlight_positions, border_positions)
    /\ pc' = "displayed"
    /\ UNCHANGED <<highlight_positions, border_positions, grid, width, height,
                   source_code>>
    /\ UNCHANGED fillVars
    /\ UNCHANGED ctlVars
    /\ UNCHANGED compVars

InitRender ==
    /\ pc = "display"
    /\ grid \in RenderGrids
    /\ highlight_positions \in HighlightLists
    /\ border_positions \in BorderLists
    /\ printed = <<>>
    /\ width = 0
    /\ height = 0
    /\ source_code = <<>>
    /\ FillIdle
    /\ CtlIdle
    /\ CompIdle

NextRender == Display

SpecRender == InitRender /\ [][NextRender]_vars

\* A printed line cut after every reset code: the tokens before each reset,
\* and whether the reset was there.
RECURSIVE Segments(_, _, _)
Segments(line, i, cur) ==
    IF i > Len(line)
      THEN IF cur = <<>> THEN <<>> ELSE <<[tokens |-> cur, closed |-> FALSE]>>
      ELSE IF <<line[i]>> = Colors.RESET
             THEN <<[tokens |-> cur, closed |-> TRUE]>> \o Segments(line, i + 1, <<>>)
             ELSE Segments(line, i + 1, Append(cur, line[i]))

\* the entries of the highlight list for the cell <<r, c>>
EntriesAt(r, c) ==
    {i \in DOMAIN highlight_positions : CellOf(highlight_positions, i) = <<r, c>>}

\* the color the precedence highlight > border > background gives <<r, c>>
LayerColor(r, c) ==
    IF EntriesAt(r, c) # {}
      THEN highlight_positions[
              CHOOSE i \in EntriesAt(r, c) : \A j \in EntriesAt(r, c) : j <= i][3]
      ELSE IF <<r, c>> \in border_positions
             THEN <<"ESC[90m">>
             ELSE <<"ESC[2m", "ESC[90m">>

\* C8: the renderer prints one line per grid row; every cell of the line is
\* the grid's character at that cell, preceded by the color the precedence
\* highlight > border > background selects and closed by a reset.
C8_LayerPrecedence ==
    pc = "displayed" =>
        /\ Len(printed) = Len(grid)
        /\ \A r \in 1..Len(grid) :
              LET segs == Segments(printed[r], 1, <<>>)
              IN  /\ Len(segs) = Len(grid[r])
                  /\ \A c \in 1..Len(grid[r]) :
                        /\ segs[c].closed
                        /\ segs[c].tokens = LayerColor(r - 1, c - 1) \o <<grid[r][c]>>

\* C8 witness: a frame of two rows was printed in which one cell is both
\* highlighted and in the border set, one is border only and one is plain
\* background.
C8_Witness ==
    /\ pc = "displayed"
    /\ Len(grid) = 2
    /\ Len(printed) = 2
    /\ EntriesAt(0, 0) # {}
    /\ <<0, 0>> \in border_positions
    /\ EntriesAt(0, 1) = {}
    /\ <<0, 1>> \in border_positions
    /\ EntriesAt(1, 1) = {}
    /\ <<1, 1>> \notin border_positions
    /\ Len(grid[1]) = 2

(***************************************************************************)
(* main(), src/clock.py 536-592, and the ASCIIClock methods it calls.      *)
(*                                                                         *)
(* The loop is cut at the places where the resize handler can make a       *)
(* difference: the test of the flag (546), update_display_parameters       *)
(* (547), the clearing of the flag (548), the adequacy check (551), the    *)
(* warning (552) or the frame (557-577), and the sleep (553, 580).         *)
(* A SIGWINCH raised by a size change is handled before the loop takes its *)
(* next step: CPython runs a pending handler as soon as the interpreter    *)
(* is back in the main thread's byte code.                                 *)
(*                                                                         *)
(* self.grid is kept as the shape of the list create_display_grid returns  *)
(* for (self.width, self.height); its cells are those of SpecGrid.  A      *)
(* clock frame is kept as the geometry it was drawn with.                  *)
(***************************************************************************)
\* self.min_width, self.min_height
min_width == 100
min_height == 25
\* time_width = 8 * 12 - 3
time_width == 93

\* the floor of get_minified_source (20000 in the code, line 126), scaled
SourceFloor == 8
\* rebuilds is counted up to this bound
MaxRebuilds == 3

\* the sizes the terminal takes; <<80, 24>> is also get_terminal_size's
\* fallback when the query fails (line 174)
TermSizes == {<<79, 24>>, <<80, 24>>, <<100, 25>>, <<120, 30>>, <<150, 40>>}

\* the minified text of the file before it is grown, lines 113-123
MinifiedText == <<"i", "m", "p">>

\* lines 125-129: while len(minified) < floor: minified += " " + minified
RECURSIVE GrowSource(_)
GrowSource(minified) ==
    IF Len(minified) < SourceFloor
      THEN GrowSource(minified \o <<" ">> \o minified)
      ELSE minified

get_minified_source == GrowSource(MinifiedText)

\* get_terminal_size, lines 147-174
get_terminal_size == term

\* is_terminal_size_adequate, lines 176-179
is_terminal_size_adequate ==
    get_terminal_size[1] >= min_width /\ get_terminal_size[2] >= min_height

\* len(grid) and len(grid[0]) of the list create_display_grid returns
GridShape(w, h) ==
    [rows |-> Max(h, 0), cols |-> IF h > 0 THEN Max(w, 0) ELSE 0]

\* lines 560-561
time_start_row(h) == Max(1, (h \div 2) - 5)
\* the block centered by the glyphs' own width, 8 * 9, without the gutters
time_start_col_noGutter(w) == Max(5, (w - 8 * PatternCols) \div 2)

time_start_col(w) == Max(5, (w - time_width) \div 2)

Running == pc \in {"start", "test", "update", "clear", "check", "warn",
                   "render", "sleep"}

\* line 542: Cursor.hide()
Start ==
    /\ pc = "start"
    /\ ~sig_pending
    /\ cursor_visible' = FALSE
    /\ pc' = "test"
    /\ UNCHANGED <<term, sig_pending, terminal_resized, supports_resize_signal,
                   self_grid, exit_code, frame, rebuilds>>
    /\ UNCHANGED <<width, height, source_code, grid, highlight_positions,
                   border_positions, printed>>
    /\ UNCHANGED fillVars
    /\ UNCHANGED compVars

\* line 546
TestFlag ==
    /\ pc = "test"
    /\ ~sig_pending
    /\ pc' = IF terminal_resized \/ ~supports_resize_signal
               THEN "update" ELSE "check"
    /\ UNCHANGED ctlVars
    /\ UNCHANGED <<width, height, source_code, grid, highlight_positions,
                   border_positions, printed>>
    /\ UNCHANGED fillVars
    /\ UNCHANGED compVars

\* line 547: update_display_parameters, lines 181-191
update_display_parameters ==
    /\ pc = "update"
    /\ ~sig_pending
    /\ width' = get_terminal_size[1] - 2
    /\ height' = get_terminal_size[2] - 2
    /\ source_code' = get_minified_source
    /\ self_grid' = GridShape(width', height')
    /\ rebuilds' = IF rebuilds < MaxRebuilds THEN rebuilds + 1 ELSE rebuilds
    /\ pc' = "clear"
    /\ UNCHANGED <<term, sig_pending, terminal_resized, supports_resize_signal,
                   cursor_visible, exit_code, frame>>
    /\ UNCHANGED <<grid, highlight_positions, border_positions, printed>>
    /\ UNCHANGED fillVars
    /\ UNCHANGED compVars

\* line 548: clock.terminal_resized = False
ClearFlag_keepsFlag ==
    /\ pc = "clear"
    /\ ~sig_pending
    /\ pc' = "check"
    /\ UNCHANGED ctlVars
    /\ UNCHANGED <<width, height, source_code, grid, highlight_positions,
                   border_positions, printed>>
    /\ UNCHANGED fillVars
    /\ UNCHANGED compVars

ClearFlag ==
    /\ pc = "clear"
    /\ ~sig_pending
    /\ terminal_resized' = FALSE
    /\ pc' = "check"
    /\ UNCHANGED <<term, sig_pending, supports_resize_signal, self_grid,
                   cursor_visible, exit_code, frame, rebuilds>>
    /\ UNCHANGED <<width, height, source_code, grid, highlight_positions,
                   border_positions, printed>>
    /\ UNCHANGED fillVars
    /\ UNCHANGED compVars

\* line 551
CheckSize ==
    /\ pc = "check"
    /\ ~sig_pending
    /\ pc' = IF is_terminal_size_adequate THEN "render" ELSE "warn"
    /\ UNCHANGED ctlVars
    /\ UNCHANGED <<width, height, source_code, grid, highlight_positions,
                   border_positions, printed>>
    /\ UNCHANGED fillVars
    /\ UNCHANGED compVars

\* line 552: display_size_warning, lines 480-533 (it queries the size again)
Warn ==
    /\ pc = "warn"
    /\ ~sig_pending
    /\ frame' = [kind |-> "warning",
                 cols |-> get_terminal_size[1], lines |-> get_terminal_size[2],
                 min_width |-> min_width, min_height |-> min_height]
    /\ pc' = "sleep"
    /\ UNCHANGED <<term, sig_pending, terminal_resized, supports_resize_signal,
                   self_grid, cursor_visible, exit_code, rebuilds>>
    /\ UNCHANGED <<width, height, source_code, grid, highlight_positions,
                   border_positions, printed>>
    /\ UNCHANGED fillVars
    /\ UNCHANGED compVars

\* lines 557-577: the anchor, the two position sets and the frame
Render ==
    /\ pc = "render"
    /\ ~sig_pending
    /\ frame' = [kind |-> "clock",
                 rows |-> self_grid.rows, cols |-> self_grid.cols,
                 grid_width |-> width, grid_height |-> height,
                 start_row |-> time_start_row(height),
                 start_col |-> time_start_col(width)]
    /\ pc' = "sleep"
    /\ UNCHANGED <<term, sig_pending, terminal_resized, supports_resize_signal,
                   self_grid, cursor_visible, exit_code, rebuilds>>
    /\ UNCHANGED <<width, height, source_code, grid, highlight_positions,
                   border_positions, printed>>
    /\ UNCHANGED fillVars
    /\ UNCHANGED compVars

\* lines 553 and 580: time.sleep(1), then the next iteration
Sleep ==
    /\ pc = "sleep"
    /\ ~sig_pending
    /\ pc' = "test"
    /\ UNCHANGED ctlVars
    /\ UNCHANGED <<width, height, source_code, grid, highlight_positions,
                   border_positions, printed>>
    /\ UNCHANGED fillVars
    /\ UNCHANGED compVars

\* the terminal changes its size; with the handler installed (lines 77-80)
\* the system raises SIGWINCH
Resize ==
    /\ Running
    /\ \E size \in TermSizes \ {term} : term' = size
    /\ sig_pending' = supports_resize_signal
    /\ rebuilds' = 0
    /\ UNCHANGED <<pc, terminal_resized, supports_resize_signal, self_grid,
                   cursor_visible, exit_code, frame>>
    /\ UNCHANGED <<width, height, source_code, grid, highlight_positions,
                   border_positions, printed>>
    /\ UNCHANGED fillVars
    /\ UNCHANGED compVars

\* the same, while the loop sleeps between two ticks
ResizeBetweenTicks ==
    /\ pc = "sleep"
    /\ Resize

\* _handle_resize, lines 96-98
HandleResize ==
    /\ Running
    /\ sig_pending
    /\ terminal_resized' = TRUE
    /\ sig_pending' = FALSE
    /\ UNCHANGED <<pc, term, supports_resize_signal, self_grid, cursor_visible,
                   exit_code, frame, rebuilds>>
    /\ UNCHANGED <<width, height, source_code, grid, highlight_positions,
                   border_positions, printed>>
    /\ UNCHANGED fillVars
    /\ UNCHANGED compVars

\* lines 582-584: Ctrl-C anywhere in the try block
KeyboardInterrupt ==
    /\ Running
    /\ frame' = [kind |-> "cleared"]
    /\ exit_code' = 0
    /\ pc' = "exited"
    /\ UNCHANGED <<term, sig_pending, terminal_resized, supports_resize_signal,
                   self_grid, cursor_visible, rebuilds>>
    /\ UNCHANGED <<width, height, source_code, grid, highlight_positions,
                   border_positions, printed>>
    /\ UNCHANGED fillVars
    /\ UNCHANGED compVars

\* lines 586-592: an exception raised by the file read of
\* get_minified_source or by the printing of a warning or a frame
Fault ==
    /\ pc \in {"update", "warn", "render"}
    /\ cursor_visible' = TRUE
    /\ frame' = [kind |-> "error"]
    /\ exit_code' = 1
    /\ pc' = "exited"
    /\ UNCHANGED <<term, sig_pending, terminal_resized, supports_resize_signal,
                   self_grid, rebuilds>>
    /\ UNCHANGED <<width, height, source_code, grid, highlight_positions,
                   border_positions, printed>>
    /\ UNCHANGED fillVars
    /\ UNCHANGED compVars

\* ASCIIClock.__init__, lines 64-82, on either kind of platform
Init ==
    /\ pc = "start"
    /\ term \in TermSizes
    /\ sig_pending = FALSE
    /\ terminal_resized = TRUE
    /\ supports_resize_signal \in BOOLEAN
    /\ width = 0
    /\ height = 0
    /\ source_code = <<>>
    /\ self_grid = EmptyGrid
    /\ cursor_visible = TRUE
    /\ exit_code = -1
    /\ frame = NoFrame
    /\ rebuilds = 0
    /\ grid = <<>>
    /\ highlight_positions = <<>>
    /\ border_positions = {}
    /\ printed = <<>>
    /\ FillIdle
    /\ CompIdle

Tick ==
    \/ Start
    \/ TestFlag
    \/ update_display_parameters
    \/ ClearFlag
    \/ CheckSize
    \/ Warn
    \/ Render
    \/ Sleep

Next ==
    \/ Tick
    \/ Resize
    \/ HandleResize
    \/ KeyboardInterrupt
    \/ Fault

Spec == Init /\ [][Next]_vars

NextBetween ==
    \/ Tick
    \/ ResizeBetweenTicks
    \/ HandleResize
    \/ KeyboardInterrupt
    \/ Fault

SpecBetween == Init /\ [][NextBetween]_vars

\* the grid the controller holds was built from the terminal's current size
GridCurrent ==
    /\ width = term[1] - 2
    /\ height = term[2] - 2
    /\ self_grid = [rows |-> term[2] - 2, cols |-> term[1] - 2]

\* C2: with resize notification, after the terminal size changed between two
\* ticks the next tick rebuilds the grid for the new size exactly once; a
\* tick that finds the flag clear goes straight to the size check and leaves
\* the grid unchanged, and the grid changes in no other place.
C2_RebuildOnce ==
    /\ [](supports_resize_signal =>
            /\ rebuilds <= 1
            /\ (\/ pc \in {"clear", "check", "warn", "render"}
                \/ (pc \in {"sleep", "test"} /\ ~terminal_resized /\ ~sig_pending))
                  => (GridCurrent /\ rebuilds = 1))
    /\ [][/\ (supports_resize_signal /\ pc = "test" /\ ~terminal_resized) =>
                (pc' \in {"check", "exited"}
                    /\ UNCHANGED <<self_grid, width, height, source_code, rebuilds>>)
          /\ (supports_resize_signal /\
                <<self_grid, width, height>>' # <<self_grid, width, height>>) =>
                (pc = "update" /\ terminal_resized)]_vars

\* C2 witness: a frame was drawn on the 118 x 28 grid of a 120 x 30 terminal,
\* the terminal became 150 x 40 while the loop slept, and the next tick has
\* rebuilt the grid, once, as 148 x 38.
C2_Witness ==
    /\ supports_resize_signal
    /\ pc = "render"
    /\ term = <<150, 40>>
    /\ frame.kind = "clock"
    /\ frame.cols = 118
    /\ frame.rows = 28
    /\ self_grid = [rows |-> 38, cols |-> 148]
    /\ rebuilds = 1
    /\ ~terminal_resized

\* C3: the tick's clearing of the flag never erases a notification whose
\* size change the grid does not reflect: past the top of a tick, whenever
\* the flag is clear and no signal is pending, the grid was built from the
\* terminal's current size.
C3_NoLostNotification ==
    (/\ supports_resize_signal
     /\ pc \in {"check", "warn", "render", "sleep", "test"}
     /\ ~terminal_resized
     /\ ~sig_pending)
        => (width = term[1] - 2 /\ height = term[2] - 2)

\* C4: on a tick that finds the terminal below the minimums no grid is built
\* and the controller holds no grid.
C4_NoGridWhenInadequate ==
    pc = "warn" => self_grid = EmptyGrid

\* C5: on every termination path the cursor hidden at startup is visible
\* again when the process exits.
C5_CursorRestored ==
    pc = "exited" => cursor_visible

\* C10: every clock frame is drawn on a grid built from a terminal size that
\* satisfies the minimums: at least 98 columns and 23 rows.
C10_FrameGridAdequate ==
    frame.kind = "clock" =>
        (frame.cols >= min_width - 2 /\ frame.rows >= min_height - 2)

(***************************************************************************)
(* The placing of the glyph block by main(), lines 556-569, on the grid    *)
(* update_display_parameters sizes (lines 183-187) for a terminal that     *)
(* satisfies the minimums.                                                 *)
(***************************************************************************)
ExtraCols == 12
ExtraRows == 6

\* terminals from the minimum size upwards, and a few large ones
AdequateSizes ==
    {<<c, r>> : c \in min_width..(min_width + ExtraCols),
                r \in min_height..(min_height + ExtraRows)}
        \cup {<<150, 40>>, <<237, 71>>}

\* the strings time.strftime("%H:%M:%S") gives, among TimeStrings
ClockTimes ==
    {t \in TimeStrings :
        /\ t[3] = ":"
        /\ t[6] = ":"
        /\ \A i \in {1, 2, 4, 5, 7, 8} : t[i] # ":"}

\* lines 183-187: width and height from the terminal size
SizeGrid ==
    /\ pc = "size"
    /\ width' = get_terminal_size[1] - 2
    /\ height' = get_terminal_size[2] - 2
    /\ pc' = "anchor"
    /\ UNCHANGED ctlVars
    /\ UNCHANGED <<source_code, grid, highlight_positions, border_positions,
                   printed>>
    /\ UNCHANGED fillVars
    /\ UNCHANGED compVars

\* lines 557-564: the anchor and the time string, the arguments of line 567
PlaceAnchor ==
    /\ pc = "anchor"
    /\ start_row' = time_start_row(height)
    /\ start_col' = time_start_col(width)
    /\ \E t \in ClockTimes : time_str' = t
    /\ grid_width' = width
    /\ grid_height' = height
    /\ pc' = "compose"
    /\ UNCHANGED ctlVars
    /\ UNCHANGED <<width, height, source_code, grid, highlight_positions,
                   border_positions, printed>>
    /\ UNCHANGED fillVars

InitAnchor ==
    /\ pc = "size"
    /\ term \in AdequateSizes
    /\ sig_pending = FALSE
    /\ terminal_resized = TRUE
    /\ supports_resize_signal = FALSE
    /\ self_grid = EmptyGrid
    /\ cursor_visible = FALSE
    /\ exit_code = -1
    /\ frame = NoFrame
    /\ rebuilds = 0
    /\ width = 0
    /\ height = 0
    /\ source_code = <<>>
    /\ grid = <<>>
    /\ highlight_positions = <<>>
    /\ border_positions = {}
    /\ printed = <<>>
    /\ FillIdle
    /\ CompIdle

NextAnchor ==
    \/ SizeGrid
    \/ PlaceAnchor
    \/ Highlight

SpecAnchor == InitAnchor /\ [][NextAnchor]_vars

\* C11: for a terminal of at least 100 columns and 25 lines, with the grid
\* sized columns - 2 by lines - 2 and the anchor computed as in the main
\* loop, the whole glyph block lies inside the grid: anchor_col + 93 <= width
\* and anchor_row + 11 <= height, and no lit glyph cell is clipped.
C11_BlockInsideGrid ==
    /\ pc \in {"compose", "highlighted"} =>
          /\ grid_width = term[1] - 2
          /\ grid_height = term[2] - 2
          /\ 0 <= start_row
          /\ 0 <= start_col
          /\ start_col + 93 <= grid_width
          /\ start_row + 11 <= grid_height
    /\ pc = "highlighted" => Len(highlight_positions) = LitCount

\* C11 witness: on the smallest adequate terminal, 100 x 25, the block was
\* placed at column 5 and ends exactly at the grid's last column, and all its
\* lit cells were returned.
C11_Witness ==
    /\ pc = "highlighted"
    /\ term = <<100, 25>>
    /\ start_col = 5
    /\ start_col + 93 = grid_width
    /\ LitCount > 0
    /\ Len(highlight_positions) = LitCount

=============================================================================
